---- MODULE Spec2Model ----
(***************************************************************************)
(* flowp.approx: one-step flowpipe over-approximation of a 2D linear       *)
(* system (src/src/flowp/flowp.py).                                        *)
(*                                                                         *)
(* Points are pairs of integers, regions are Python lists of points.  The  *)
(* lists live in a heap addressed by references, so that aliasing between  *)
(* the caller's arguments, the locals of approx and the 'vertices' entries *)
(* of the polytope dicts is explicit.  Flow matrices are drawn from        *)
(* nilpotent integer matrices (A * A = 0), for which the matrix            *)
(* exponential is exactly I + A, so the arithmetic of approx stays in the  *)
(* integers.                                                               *)
(***************************************************************************)
EXTENDS Integers, Sequences, FiniteSets, TLC

\* Longest region (number of points) the caller passes as initial_location.
MaxPts == 3

\* Largest magnitude of step_size the caller passes.
MaxStep == 1

\* ------------------------------------------------------------------------
\* Points and small helpers
\* ------------------------------------------------------------------------
Range(s) == {s[i] : i \in DOMAIN s}

AddPt(a, b) == <<a[1] + b[1], a[2] + b[2]>>

\* Twice the signed area of the triangle o, a, b: > 0 iff b lies left of o -> a.
Cross(o, a, b) == (a[1] - o[1]) * (b[2] - o[2]) - (a[2] - o[2]) * (b[1] - o[1])

Dist2(a, b) == (a[1] - b[1]) * (a[1] - b[1]) + (a[2] - b[2]) * (a[2] - b[2])

LexLess(a, b) == a[1] < b[1] \/ (a[1] = b[1] /\ a[2] < b[2])

\* ------------------------------------------------------------------------
\* Linear algebra: matrices are sequences of rows
\* ------------------------------------------------------------------------
Identity(n) == [i \in 1..n |-> [j \in 1..n |-> IF i = j THEN 1 ELSE 0]]

\* step_size * flow
Scale(k, A) == [i \in DOMAIN A |-> [j \in DOMAIN A[i] |-> k * A[i][j]]]

MatAdd(A, B) == [i \in DOMAIN A |-> [j \in DOMAIN A[i] |-> A[i][j] + B[i][j]]]

\* scipy.linalg.expm on a nilpotent matrix of index <= 2: the series
\* I + A + A^2/2! + ... stops after the linear term.
expm(A) == MatAdd(Identity(Len(A)), A)

\* numpy's matrix_exp @ v is defined only when the inner dimensions agree.
MatVecDefined(M, v) == \A i \in DOMAIN M : Len(M[i]) = Len(v)

RECURSIVE Dot(_, _, _)
Dot(row, v, n) == IF n = 0 THEN 0 ELSE row[n] * v[n] + Dot(row, v, n - 1)

MatVec(M, v) == [i \in DOMAIN M |-> Dot(M[i], v, Len(v))]

\* Faulty variant: the image of v is added to v, as if matrix_exp were a displacement.
PropagatePoints_Displaced(M, pts) ==
    [i \in DOMAIN pts |-> AddPt(MatVec(M, pts[i]), pts[i])]

\* flowpipe = [matrix_exp @ v for v in initial_location]
PropagatePoints(M, pts) == [i \in DOMAIN pts |-> MatVec(M, pts[i])]

\* Faulty variant: zip in place of product, the lists summed position by position.
MinkowskiSum_Zip(fp, bl) ==
    [k \in 1..(IF Len(fp) < Len(bl) THEN Len(fp) ELSE Len(bl)) |->
        AddPt(fp[k], bl[k])]

\* [v1 + v2 for v1, v2 in product(flowpipe, bloating)]: v1 is the outer loop.
MinkowskiSum(fp, bl) ==
    [k \in 1..(Len(fp) * Len(bl)) |->
        AddPt(fp[((k - 1) \div Len(bl)) + 1], bl[((k - 1) % Len(bl)) + 1])]

\* ------------------------------------------------------------------------
\* scipy.spatial.ConvexHull in 2D (Qhull): the extreme points of the input,
\* in counterclockwise order; Qhull raises on an input without three
\* affinely independent points (too few points, or a flat initial simplex).
\* The walk starts at the lexicographically lowest point; scipy documents
\* the counterclockwise order only.
\* ------------------------------------------------------------------------
Degenerate(pts) == ~ \E a, b, c \in Range(pts) : Cross(a, b, c) # 0

LowestPoint(S) == CHOOSE p \in S : \A q \in S \ {p} : LexLess(p, q)

\* Faulty variant: the nearest point on the supporting line is taken, so points inside
\* a hull edge are kept as vertices.
NextVertex_KeepCollinear(S, p) ==
    CHOOSE q \in S \ {p} : \A r \in S \ {p, q} :
        \/ Cross(p, q, r) > 0
        \/ /\ Cross(p, q, r) = 0
           /\ \/ Dist2(p, r) > Dist2(p, q)
              \/ (q[1] - p[1]) * (r[1] - p[1]) + (q[2] - p[2]) * (r[2] - p[2]) < 0

\* The next hull vertex after p, counterclockwise: every other point lies
\* strictly left of p -> q, or on the segment between p and q.
NextVertex(S, p) ==
    CHOOSE q \in S \ {p} : \A r \in S \ {p, q} :
        \/ Cross(p, q, r) > 0
        \/ Cross(p, q, r) = 0 /\ Dist2(p, r) < Dist2(p, q)

RECURSIVE March(_, _, _, _)
March(S, start, p, acc) ==
    LET q == NextVertex(S, p)
    IN  IF q = start THEN acc ELSE March(S, start, q, Append(acc, q))

\* Faulty variant: the walk starts from an empty list and never emits its start vertex.
HullVertices_DropStart(pts) ==
    LET S == Range(pts)
        s == LowestPoint(S)
    IN  March(S, s, s, << >>)

HullVertices(pts) ==
    LET S == Range(pts)
        s == LowestPoint(S)
    IN  March(S, s, s, <<s>>)

\* Faulty variant: a degenerate input is handed back as it is instead of raising.
ConvexHull_NoRaise(pts) ==
    [ok |-> TRUE, vertices |-> IF Degenerate(pts) THEN pts ELSE HullVertices(pts)]

\* conv_hull = ConvexHull(points); [conv_hull.points[v] for v in conv_hull.vertices]
ConvexHull(pts) ==
    IF Degenerate(pts)
    THEN [ok |-> FALSE, vertices |-> <<>>]
    ELSE [ok |-> TRUE, vertices |-> HullVertices(pts)]

\* ------------------------------------------------------------------------
\* The heap of Python lists.  A reference is the name of the expression that
\* allocated the list; an unallocated reference holds the empty list.
\* ------------------------------------------------------------------------
HullRef(i) == <<"hull1", "hull2", "hull3", "hull4">>[i]

Refs == {"initial_location", "bloating", "flowpipe", "product", "with_init",
         "hull1", "hull2", "hull3", "hull4"}

\* Faulty variant: the initial region is left out of the enclosure point set.
Concat_NoInit(h, bf) == [h EXCEPT !["with_init"] = h[bf]]

\* bloated_flowpipe_with_init = bloated_flowpipe + initial_location: list +
\* allocates a new list and leaves both operands alone.
Concat(h, bf) == [h EXCEPT !["with_init"] = h[bf] \o h["initial_location"]]

\* Faulty variant: the 'Bloating' record is never appended.
PolytopeList_NoBloating(withBloating) ==
    << [name |-> "Initial Valuation I", vertices |-> "initial_location"],
       [name |-> "mat_exp(flow) * I", vertices |-> "flowpipe"],
       [name |-> "Omega_1: convHull(mink_sum(mat_exp(flow) * I, bloat), I)",
        vertices |-> "with_init"] >>

\* The list of polytope dicts, lines 62-81; 'vertices' holds a reference.
PolytopeList(withBloating) ==
    << [name |-> "Initial Valuation I", vertices |-> "initial_location"],
       [name |-> "mat_exp(flow) * I", vertices |-> "flowpipe"],
       [name |-> "Omega_1: convHull(mink_sum(mat_exp(flow) * I, bloat), I)",
        vertices |-> "with_init"] >>
    \o (IF withBloating
        THEN << [name |-> "Bloating", vertices |-> "bloating"] >>
        ELSE << >>)

\* Faulty variant: polytope['vertices'][:] = [...], the list the entry refers to is
\* overwritten in place.
HullStore_InPlace(h, ps, i, verts) ==
    [heap      |-> [h EXCEPT ![ps[i].vertices] = verts],
     polytopes |-> ps]

\* polytope['vertices'] = [...]: the comprehension allocates a new list and
\* the dict entry is rebound to it.
HullStore(h, ps, i, verts) ==
    [heap      |-> [h EXCEPT ![HullRef(i)] = verts],
     polytopes |-> [ps EXCEPT ![i].vertices = HullRef(i)]]

\* The records as data: every 'vertices' reference followed into the heap.
Deref(ps, h) ==
    [i \in DOMAIN ps |-> [name |-> ps[i].name, vertices |-> h[ps[i].vertices]]]

\* ------------------------------------------------------------------------
\* Arguments of a call
\* ------------------------------------------------------------------------
Grid == (0..2) \X (0..1)

BloatGrid == {<<0, 0>>, <<1, 0>>, <<2, 0>>, <<0, 1>>}

Sorted(s) == \A i \in 1..(Len(s) - 1) : ~LexLess(s[i + 1], s[i])

StrictlySorted(s) == \A i \in 1..(Len(s) - 1) : LexLess(s[i], s[i + 1])

\* Lists of at most n points of G, up to permutation, duplicates allowed.
Regions(G, n) == {s \in UNION {[1..k -> G] : k \in 0..n} : Sorted(s)}

InitRegions == Regions(Grid, MaxPts)

BloatRegions == {s \in Regions(BloatGrid, 3) : StrictlySorted(s)}

Zero2 == << <<0, 0>>, <<0, 0>> >>

Shear == << <<0, 1>>, <<0, 0>> >>

Zero3 == << <<0, 0, 0>>, <<0, 0, 0>>, <<0, 0, 0>> >>

Flows == {Zero2, Shear, Zero3}

Steps == (-MaxStep)..MaxStep

PlotArgs == {"omitted", "True", "False"}

\* Faulty variant: plot defaults to False.
PlotParam_DefaultFalse(arg) == arg = "True"

\* def approx(..., step_size: float=1, plot: bool=True)
PlotParam(arg) == IF arg = "omitted" THEN TRUE ELSE arg = "True"

\* ------------------------------------------------------------------------
\* State
\* ------------------------------------------------------------------------
VARIABLES
    pc,                 \* position in approx
    call,               \* the arguments as the caller passed them
    heap,               \* reference -> list of points
    flow, step_size, plot,
    matrix_exp,
    bloated_flowpipe,   \* reference: "product", or an alias of "flowpipe"
    polytopes,          \* list of [name, vertices (a reference)]
    idx,                \* position of the for loop over polytopes
    outcome,            \* how the call ended
    plotted             \* the record lists handed to plot_polytopes

vars == <<pc, call, heap, flow, step_size, plot, matrix_exp, bloated_flowpipe,
          polytopes, idx, outcome, plotted>>

Running == [status |-> "running", error |-> "", none |-> FALSE, value |-> <<>>]

Raised(e) == [status |-> "raised", error |-> e, none |-> FALSE, value |-> <<>>]

ReturnedNone == [status |-> "returned", error |-> "", none |-> TRUE, value |-> <<>>]

Returned(v) == [status |-> "returned", error |-> "", none |-> FALSE, value |-> v]

Init ==
    \E il \in InitRegions, bl \in BloatRegions, f \in Flows, st \in Steps,
       pa \in PlotArgs :
        /\ call = [initial_location |-> il, bloating |-> bl, plot |-> pa]
        /\ heap = [r \in Refs |-> IF r = "initial_location" THEN il
                                  ELSE IF r = "bloating" THEN bl ELSE << >>]
        /\ flow = f
        /\ step_size = st
        /\ plot = PlotParam(pa)
        /\ pc = "propagate"
        /\ matrix_exp = << >>
        /\ bloated_flowpipe = "unbound"
        /\ polytopes = << >>
        /\ idx = 0
        /\ outcome = Running
        /\ plotted = << >>

\* Lines 53-54.  matrix_exp @ v raises ValueError on the first v whose length
\* differs from the matrix dimension.
Propagate ==
    /\ pc = "propagate"
    /\ LET M == expm(Scale(step_size, flow))
       IN  /\ matrix_exp' = M
           /\ IF \E i \in DOMAIN heap["initial_location"] :
                    ~MatVecDefined(M, heap["initial_location"][i])
              THEN /\ outcome' = Raised("ValueError")
                   /\ pc' = "done"
                   /\ heap' = heap
              ELSE /\ heap' = [heap EXCEPT !["flowpipe"] =
                                   PropagatePoints(M, heap["initial_location"])]
                   /\ pc' = "assemble"
                   /\ outcome' = outcome
    /\ UNCHANGED <<call, flow, step_size, plot, bloated_flowpipe, polytopes,
                   idx, plotted>>

\* Lines 55-81: the bloated point set, the enclosure point set and the list
\* of polytope dicts.
Assemble ==
    /\ pc = "assemble"
    /\ LET bloat == heap["bloating"] # << >>
           bf    == IF bloat THEN "product" ELSE "flowpipe"
           h1    == IF bloat
                    THEN [heap EXCEPT !["product"] =
                              MinkowskiSum(heap["flowpipe"], heap["bloating"])]
                    ELSE heap
       IN  /\ bloated_flowpipe' = bf
           /\ heap' = Concat(h1, bf)
           /\ polytopes' = PolytopeList(bloat)
    /\ idx' = 1
    /\ pc' = "hull"
    /\ UNCHANGED <<call, flow, step_size, plot, matrix_exp, outcome, plotted>>

\* Lines 83-86, one iteration of the loop.  A QhullError leaves approx at
\* once: nothing is returned and nothing is plotted.
HullStep ==
    /\ pc = "hull"
    /\ LET ch == ConvexHull(heap[polytopes[idx].vertices])
       IN  IF ~ch.ok
           THEN /\ outcome' = Raised("QhullError")
                /\ pc' = "done"
                /\ UNCHANGED <<heap, polytopes, idx>>
           ELSE LET st == HullStore(heap, polytopes, idx, ch.vertices)
                IN  /\ heap' = st.heap
                    /\ polytopes' = st.polytopes
                    /\ idx' = idx + 1
                    /\ pc' = IF idx = Len(polytopes) THEN "finish" ELSE "hull"
                    /\ outcome' = outcome
    /\ UNCHANGED <<call, flow, step_size, plot, matrix_exp, bloated_flowpipe,
                   plotted>>

\* Lines 88-89: return plot_polytopes(polytopes), which returns None.
Plot ==
    /\ pc = "finish"
    /\ plot
    /\ plotted' = Append(plotted, Deref(polytopes, heap))
    /\ outcome' = ReturnedNone
    /\ pc' = "done"
    /\ UNCHANGED <<call, heap, flow, step_size, plot, matrix_exp,
                   bloated_flowpipe, polytopes, idx>>

\* Line 91: return polytopes.
Return ==
    /\ pc = "finish"
    /\ ~plot
    /\ outcome' = Returned(Deref(polytopes, heap))
    /\ pc' = "done"
    /\ UNCHANGED <<call, heap, flow, step_size, plot, matrix_exp,
                   bloated_flowpipe, polytopes, idx, plotted>>

Next == Propagate \/ Assemble \/ HullStep \/ Plot \/ Return

Spec == Init /\ [][Next]_vars

\* ------------------------------------------------------------------------
\* Vocabulary of the properties
\* ------------------------------------------------------------------------
Origin == <<0, 0>>

NameInitial == "Initial Valuation I"

NamePropagated == "mat_exp(flow) * I"

NameEnclosure == "Omega_1: convHull(mink_sum(mat_exp(flow) * I, bloat), I)"

NameBloating == "Bloating"

\* The call ran to its last line.
Succeeded == pc = "done" /\ outcome.status = "returned"

HasBloating == call.bloating # << >>

\* The point set record i was built from, and the vertices it ended with.
InputOf(i) == heap[PolytopeList(HasBloating)[i].vertices]

VerticesOf(i) == heap[polytopes[i].vertices]

\* p lies on the closed segment a b.
InSegment(p, a, b) ==
    /\ Cross(a, b, p) = 0
    /\ (p[1] - a[1]) * (p[1] - b[1]) <= 0
    /\ (p[2] - a[2]) * (p[2] - b[2]) <= 0

\* p lies in the closed triangle a b c (of non-zero area).
InTriangle(p, a, b, c) ==
    LET d1 == Cross(a, b, p)
        d2 == Cross(b, c, p)
        d3 == Cross(c, a, p)
    IN  /\ Cross(a, b, c) # 0
        /\ \/ d1 >= 0 /\ d2 >= 0 /\ d3 >= 0
           \/ d1 <= 0 /\ d2 <= 0 /\ d3 <= 0

\* p is a convex combination of points of T (Caratheodory, in the plane).
InHull(p, T) ==
    \/ p \in T
    \/ \E a, b \in T : InSegment(p, a, b)
    \/ \E a, b, c \in T : InTriangle(p, a, b, c)

\* p is an extreme point of S: some line through p leaves every other point
\* of S strictly on one side, or on the line strictly on one side of p.
IsExtreme(p, S) ==
    /\ p \in S
    /\ \/ S = {p}
       \/ \E q \in S \ {p} : \A r \in S \ {p, q} :
            \/ Cross(p, q, r) > 0
            \/ /\ Cross(p, q, r) = 0
               /\ (q[1] - p[1]) * (r[1] - p[1]) + (q[2] - p[2]) * (r[2] - p[2]) > 0

ExtremePoints(S) == {p \in S : IsExtreme(p, S)}

PairSums(P, B) == {AddPt(p, b) : p \in P, b \in B}

\* ------------------------------------------------------------------------
\* Properties
\* ------------------------------------------------------------------------

\* C1: a call that returns data returns the records 'Initial Valuation I',
\* 'mat_exp(flow) * I' and the enclosure record, in that order, followed by a
\* fourth and last record 'Bloating' exactly when the bloating region is
\* non-empty.
C1_RecordOrder ==
    (Succeeded /\ ~outcome.none) =>
        [i \in DOMAIN outcome.value |-> outcome.value[i].name]
            = IF HasBloating
              THEN <<NameInitial, NamePropagated, NameEnclosure, NameBloating>>
              ELSE <<NameInitial, NamePropagated, NameEnclosure>>

C1_Witness ==
    /\ Succeeded /\ ~outcome.none
    /\ Len(outcome.value) = 4
    /\ outcome.value[4].name = NameBloating

\* C2: the enclosure record holds the extreme points of S ++ initial_region,
\* where S is the list of all |propagated| * |bloating| pairwise sums when
\* the bloating region is non-empty and the propagated list itself when it
\* is empty.
C2_EnclosurePoints ==
    Succeeded =>
        LET fp == heap["flowpipe"]
            S  == heap[bloated_flowpipe]
        IN  /\ heap["with_init"] = S \o call.initial_location
            /\ HasBloating =>
                  /\ Len(S) = Len(fp) * Len(call.bloating)
                  /\ Range(S) = PairSums(Range(fp), Range(call.bloating))
            /\ ~HasBloating => S = fp
            /\ Range(VerticesOf(3)) =
                  ExtremePoints(
                      (IF HasBloating
                       THEN PairSums(Range(fp), Range(call.bloating))
                       ELSE Range(fp))
                      \cup Range(call.initial_location))

C2_Witness ==
    /\ Succeeded
    /\ Len(heap["product"]) = 9
    /\ Len(VerticesOf(3)) < Cardinality(Range(heap["with_init"]))

\* The enclosure absorbs the point list pts: the hull of its vertices
\* together with pts is the enclosure's vertex set again.
EnclosureContains(pts) ==
    LET ch == ConvexHull(VerticesOf(3) \o pts)
    IN  ch.ok /\ Range(ch.vertices) = Range(VerticesOf(3))

C4_MinimalVertices ==
    Succeeded =>
        \A i \in DOMAIN polytopes :
            LET V == VerticesOf(i)
            IN  /\ Range(V) \subseteq Range(InputOf(i))
                /\ Cardinality(Range(V)) = Len(V)
                /\ \A p \in Range(V) :
                      /\ IsExtreme(p, Range(InputOf(i)))
                      /\ ~InHull(p, Range(V) \ {p})

\* A record whose input holds a duplicate, a point inside an edge and a
\* point strictly inside the hull, all of them dropped.
C4_Witness ==
    /\ Succeeded
    /\ Cardinality(Range(InputOf(3))) < Len(InputOf(3))
    /\ \E p \in Range(InputOf(3)) \ Range(VerticesOf(3)) :
          \E a, b \in Range(VerticesOf(3)) : a # b /\ InSegment(p, a, b)
    /\ \E p \in Range(InputOf(3)) \ Range(VerticesOf(3)) :
          \A a, b \in Range(VerticesOf(3)) : ~InSegment(p, a, b)

\* C5: hull reduction applied to the vertices a record ended with succeeds
\* and yields the same vertex set.
C5_HullIdempotent ==
    Succeeded =>
        \A i \in DOMAIN polytopes :
            LET again == ConvexHull(VerticesOf(i))
            IN  again.ok /\ Range(again.vertices) = Range(VerticesOf(i))

C5_Witness ==
    /\ Succeeded
    /\ Len(VerticesOf(3)) >= 5
    /\ Len(InputOf(3)) > Len(VerticesOf(3))

\* Fewer than three points, or all points on one line.
FewOrCollinear(pts) ==
    \/ Len(pts) < 3
    \/ \A a, b, c \in Range(pts) : Cross(a, b, c) = 0

C7_InvalidInputRejected ==
    (pc = "done" /\ (step_size <= 0 \/ Len(flow) # 2)) =>
        /\ outcome.status = "raised"
        /\ plotted = << >>

\* C8: with the zero flow matrix the propagated record has the vertex set of
\* the initial record, and so has the enclosure record when the bloating
\* region is empty.
C8_IdentityStep ==
    (Succeeded /\ flow = Zero2) =>
        /\ Range(VerticesOf(2)) = Range(VerticesOf(1))
        /\ ~HasBloating => Range(VerticesOf(3)) = Range(VerticesOf(1))

C8_Witness ==
    /\ Succeeded
    /\ flow = Zero2
    /\ step_size < 0
    /\ ~HasBloating
    /\ Len(VerticesOf(1)) = 3

\* The hull-reduced records of the call, computed from the point sets the
\* records were built from.
HullReduced ==
    [i \in DOMAIN polytopes |->
        [name     |-> PolytopeList(HasBloating)[i].name,
         vertices |-> ConvexHull(InputOf(i)).vertices]]

\* C9: with plot false the hull-reduced records are returned and
\* plot_polytopes is never called; with plot true (also when the argument is
\* omitted) nothing is returned and plot_polytopes gets the same records
\* exactly once; plot_polytopes is called only after every hull reduction
\* has succeeded.
C9_RenderingFlag ==
    /\ call.plot = "omitted" => plot
    /\ call.plot = "True" => plot
    /\ call.plot = "False" => ~plot
    /\ ~plot => plotted = << >>
    /\ (Succeeded /\ ~plot) => outcome = Returned(HullReduced)
    /\ (Succeeded /\ plot) => outcome = ReturnedNone /\ plotted = <<HullReduced>>
    /\ plotted # << >> =>
          /\ Succeeded
          /\ idx = Len(polytopes) + 1
          /\ \A i \in DOMAIN polytopes : polytopes[i].vertices = HullRef(i)

C9_Witness ==
    /\ Succeeded
    /\ call.plot = "omitted"
    /\ Len(plotted) = 1
    /\ Len(plotted[1]) = 4

\* The records approx computes from its arguments.
ApproxRecords(il, f, bl, st) ==
    LET fp == PropagatePoints(expm(Scale(st, f)), il)
        S  == IF bl # << >> THEN MinkowskiSum(fp, bl) ELSE fp
        ins == <<il, fp, S \o il>> \o (IF bl # << >> THEN <<bl>> ELSE << >>)
        ps == PolytopeList(bl # << >>)
    IN  [i \in DOMAIN ps |->
            [name |-> ps[i].name, vertices |-> ConvexHull(ins[i]).vertices]]

\* C10: throughout a call, successful or failing, the caller's
\* initial_location and bloating lists hold the points they were passed
\* with, in the same order, and the propagated list is not extended; the
\* returned records are those the unchanged arguments determine.
C10_ArgumentsUnchanged ==
    /\ heap["initial_location"] = call.initial_location
    /\ heap["bloating"] = call.bloating
    /\ polytopes # << >> =>
          Len(heap["flowpipe"]) = Len(call.initial_location)
    /\ (Succeeded /\ ~plot) =>
          outcome.value = ApproxRecords(heap["initial_location"], flow,
                                        heap["bloating"], step_size)

\* A returned call whose first record is not the caller's list: the hull
\* order differs from the order the points were passed in.
C10_Witness ==
    /\ Succeeded /\ ~plot
    /\ ~HasBloating
    /\ outcome.value[1].vertices # call.initial_location
    /\ outcome.value[3].vertices # heap["flowpipe"]

====
